---- MODULE Spec2Model ----
(***************************************************************************)
(* train_model of models_v2/model_training_script.py as a state machine:   *)
(* the epoch loop, its train and val phases, the batch loop, the           *)
(* best-checkpoint selection, the patience counter, the scheduler and the  *)
(* final restore of the best weights.                                      *)
(*                                                                         *)
(* Python floats are modelled as exact extended rationals                  *)
(* [num |-> n, den |-> d]: d > 0 is the finite value n/d, <<1,0>> is +inf  *)
(* and <<0,0>> is NaN.  Comparisons follow IEEE-754: every comparison with *)
(* NaN is false.  Model parameters (a state_dict) are opaque values drawn  *)
(* from ParamVals.  The inputs are the ones the loop runs through without  *)
(* raising: both phase keys present, dataset_sizes > 0, loaders that yield *)
(* at least one batch.  epoch_loss and epoch_recall are held from line 74  *)
(* to the entry of the next phase, where nothing reads them any more.      *)
(***************************************************************************)
EXTENDS Integers, Sequences, FiniteSets, TLC

\* ---------------------------------------------------------------- bounds
MaxEpochs == 2
MaxPatience == 2

\* ---------------------------------------------------------------- floats
Fin(n) == [num |-> n, den |-> 1]
Inf == [num |-> 1, den |-> 0]
NaN == [num |-> 0, den |-> 0]

IsNaN(a) == a.den = 0 /\ a.num = 0
IsInf(a) == a.den = 0 /\ a.num # 0
IsFinite(a) == a.den # 0

\* a + b for non-negative extended rationals
FAdd(a, b) ==
    IF IsNaN(a) \/ IsNaN(b) THEN NaN
    ELSE IF IsInf(a) \/ IsInf(b) THEN Inf
    ELSE [num |-> a.num * b.den + b.num * a.den, den |-> a.den * b.den]

\* a * n for an integer n > 0
FMulInt(a, n) ==
    IF IsFinite(a) THEN [num |-> a.num * n, den |-> a.den] ELSE a

\* a / d for an integer d > 0
FDivInt(a, d) ==
    IF IsFinite(a) THEN [num |-> a.num, den |-> a.den * d] ELSE a

\* a < b and a > b as Python evaluates them on floats
FLt(a, b) == ~IsNaN(a) /\ ~IsNaN(b) /\ a.num * b.den < b.num * a.den
FGt(a, b) == FLt(b, a)

\* the same float value (NaN taken as one value)
FSame(a, b) ==
    \/ IsNaN(a) /\ IsNaN(b)
    \/ IsInf(a) /\ IsInf(b)
    \/ IsFinite(a) /\ IsFinite(b) /\ a.num * b.den = b.num * a.den

\* ------------------------------------------------------- input domains
\* loss.item() of one batch
LossVals == {Fin(0), Fin(1), Inf, NaN}
\* The (dataloaders[phase], dataset_sizes[phase]) pairs a caller supplies. A
\* loader is the len(image) of each batch it yields, in order, the same on every
\* pass. The first pair has dataset_sizes[phase] equal to the number of samples
\* the loader yields, the second does not.
Splits == {[loader |-> <<2, 1>>, size |-> 3], [loader |-> <<1>>, size |-> 2]}
\* macro recall over the phase, in [0, 1]
RecallVals == {Fin(0), [num |-> 1, den |-> 2], Fin(1)}
\* model.state_dict() values; EntryWts is the value on entry and an optimizer
\* step may produce any value, EntryWts included
EntryWts == "w0"
ParamVals == {"w0", "w1"}
\* value of epoch_loss and epoch_recall where the code does not read them
\* (from the entry of a phase to line 74)
Unset == Fin(0)

VARIABLES
    num_epochs, patience, scheduler, dataloaders, dataset_sizes,  \* arguments
    pc, epoch, phase,
    training,          \* model.training, set by model.train() and model.eval()
    params,            \* model.state_dict()
    running_loss,
    batches,           \* the batches the current phase has consumed (loss, size)
    epoch_loss, epoch_recall,
    best_metrics, best_model_wts, patience_left,
    ckpt,              \* the file at output_filename: [written, wts]
    opt_stepped,       \* optimizer.step() has been called
    sched_steps,       \* calls of scheduler.step()
    saves,             \* calls of torch.save()
    ran,               \* phases completed, per phase
    at_entry,          \* best record, patience, params, ... on entry of the phase
    streak,            \* consecutive val phases without an update
    first_finite,      \* the first val phase ended with a finite epoch_loss
    stopped            \* how the epoch loop ended: "patience" or "exhausted"

args == <<num_epochs, patience, scheduler, dataloaders, dataset_sizes>>
ctl == <<pc, epoch, phase, training>>
acc == <<running_loss, batches>>
met == <<epoch_loss, epoch_recall>>
sel == <<best_metrics, best_model_wts, patience_left, ckpt, saves, streak>>
cnt == <<opt_stepped, sched_steps>>
hist == <<ran, first_finite, stopped>>
vars == <<args, ctl, params, acc, met, sel, cnt, hist, at_entry>>

PhaseNames == {"train", "val"}

\* ------------------------------------------------------------ the code
\* lines 21-28 (val_accuracy, val_precision and val_f1 are stored and printed
\* like val_recall and never read by the loop)
InitBestMetricsZeroLoss == [epoch |-> 0, val_loss |-> Fin(0), val_recall |-> Fin(0)]
InitBestMetrics == [epoch |-> 0, val_loss |-> Inf, val_recall |-> Fin(0)]

\* line 38: range(num_epochs) has another element
HasNextEpochInclusive(e, n) == e <= n
HasNextEpoch(e, n) == e < n

\* line 70: running_loss += loss.item() * len(image)
AccumulateUnweighted(running, loss, n) == FAdd(running, loss)
Accumulate(running, loss, n) == FAdd(running, FMulInt(loss, n))

\* line 74: epoch_loss = running_loss / dataset_sizes[phase]
EpochLoss(running, size) == FDivInt(running, size)

\* line 83: the best-so-far test of a val phase
IsBetterBoth(loss, recall, best) ==
    FLt(loss, best.val_loss) /\ FGt(recall, best.val_recall)
IsBetter(loss, recall, best) ==
    FLt(loss, best.val_loss) \/ FGt(recall, best.val_recall)

\* lines 95 and 97
NextPatienceNoReset(better, left, pat) == IF better THEN left ELSE left - 1
NextPatience(better, left, pat) == IF better THEN pat ELSE left - 1

\* line 101
OutOfPatienceStrict(left) == left < 0
OutOfPatience(left) == left <= 0

Snapshot ==
    [best |-> best_metrics, wts |-> best_model_wts, left |-> patience_left,
     params |-> params, saves |-> saves, stepped |-> opt_stepped]

Init ==
    /\ num_epochs \in 0..MaxEpochs
    /\ patience \in 0..MaxPatience
    /\ scheduler \in BOOLEAN
    /\ \E split \in [PhaseNames -> Splits] :
          /\ dataloaders = [p \in PhaseNames |-> split[p].loader]
          /\ dataset_sizes = [p \in PhaseNames |-> split[p].size]
    /\ params = EntryWts
    /\ best_metrics = InitBestMetrics
    /\ best_model_wts = params
    /\ patience_left = patience
    /\ pc = "loop"
    /\ epoch = 0
    /\ phase = "none"
    /\ training = TRUE
    /\ running_loss = Fin(0)
    /\ batches = <<>>
    /\ epoch_loss = Unset
    /\ epoch_recall = Unset
    /\ ckpt = [written |-> FALSE, wts |-> EntryWts]
    /\ opt_stepped = FALSE
    /\ sched_steps = 0
    /\ saves = 0
    /\ ran = [p \in PhaseNames |-> 0]
    /\ at_entry = [best |-> InitBestMetrics, wts |-> EntryWts, left |-> patience,
                   params |-> EntryWts, saves |-> 0, stepped |-> FALSE]
    /\ streak = 0
    /\ first_finite = FALSE
    /\ stopped = "no"

\* lines 40-48: enter phase p
EnterPhase(p) ==
    /\ phase' = p
    /\ training' = (p = "train")
    /\ running_loss' = Fin(0)
    /\ batches' = <<>>
    /\ epoch_loss' = Unset
    /\ epoch_recall' = Unset
    /\ at_entry' = Snapshot
    /\ pc' = "batch"

\* lines 38-39: the next epoch starts with its train phase
EpochStart ==
    /\ pc = "loop"
    /\ HasNextEpoch(epoch, num_epochs)
    /\ EnterPhase("train")
    /\ UNCHANGED <<args, epoch, params, sel, cnt, hist>>

\* line 38: range(num_epochs) is exhausted
LoopExit ==
    /\ pc = "loop"
    /\ ~HasNextEpoch(epoch, num_epochs)
    /\ pc' = "finish"
    /\ stopped' = "exhausted"
    /\ UNCHANGED <<args, epoch, phase, training, params, acc, met, sel, cnt,
                   ran, first_finite, at_entry>>

\* lines 50-72, one batch of the train phase
TrainBatch ==
    /\ pc = "batch" /\ phase = "train"
    /\ Len(batches) < Len(dataloaders["train"])
    /\ \E loss \in LossVals, w \in ParamVals :
         LET n == dataloaders["train"][Len(batches) + 1]
         IN /\ params' = w
            /\ running_loss' = Accumulate(running_loss, loss, n)
            /\ batches' = Append(batches, [loss |-> loss, n |-> n])
    /\ opt_stepped' = TRUE
    /\ UNCHANGED <<args, ctl, met, sel, sched_steps, hist, at_entry>>

\* lines 50-72, one batch of the val phase that also steps the optimizer
ValBatchStepping ==
    /\ pc = "batch" /\ phase = "val"
    /\ Len(batches) < Len(dataloaders["val"])
    /\ \E loss \in LossVals, w \in ParamVals :
         LET n == dataloaders["val"][Len(batches) + 1]
         IN /\ params' = w
            /\ running_loss' = Accumulate(running_loss, loss, n)
            /\ batches' = Append(batches, [loss |-> loss, n |-> n])
    /\ opt_stepped' = TRUE
    /\ UNCHANGED <<args, ctl, met, sel, sched_steps, hist, at_entry>>

\* lines 50-72, one batch of the val phase
ValBatch ==
    /\ pc = "batch" /\ phase = "val"
    /\ Len(batches) < Len(dataloaders["val"])
    /\ \E loss \in LossVals :
         LET n == dataloaders["val"][Len(batches) + 1]
         IN /\ running_loss' = Accumulate(running_loss, loss, n)
            /\ batches' = Append(batches, [loss |-> loss, n |-> n])
    /\ UNCHANGED <<args, ctl, params, met, sel, cnt, hist, at_entry>>

\* lines 74-99 of the train phase
TrainPhaseEnd ==
    /\ pc = "batch" /\ phase = "train"
    /\ Len(batches) = Len(dataloaders["train"])
    /\ epoch_loss' = EpochLoss(running_loss, dataset_sizes["train"])
    /\ \E r \in RecallVals : epoch_recall' = r
    /\ ran' = [ran EXCEPT !["train"] = @ + 1]
    /\ pc' = "phase_done"
    /\ UNCHANGED <<args, epoch, phase, training, params, acc, sel, cnt,
                   first_finite, stopped, at_entry>>

\* line 39: the val phase follows the train phase
ValPhaseStart ==
    /\ pc = "phase_done" /\ phase = "train"
    /\ EnterPhase("val")
    /\ UNCHANGED <<args, epoch, params, sel, cnt, hist>>

\* lines 84-95 without the torch.save of line 94
UpdateBestNoSave(loss, recall) ==
    /\ best_metrics' = [epoch |-> epoch + 1, val_loss |-> loss, val_recall |-> recall]
    /\ best_model_wts' = params
    /\ streak' = 0
    /\ UNCHANGED <<ckpt, saves>>

\* lines 84-95
UpdateBest(loss, recall) ==
    /\ best_metrics' = [epoch |-> epoch + 1, val_loss |-> loss, val_recall |-> recall]
    /\ best_model_wts' = params
    /\ ckpt' = [written |-> TRUE, wts |-> params]
    /\ saves' = saves + 1
    /\ streak' = 0

\* lines 96-97
KeepBest ==
    /\ streak' = streak + 1
    /\ UNCHANGED <<best_metrics, best_model_wts, ckpt, saves>>

\* lines 74-99 of the val phase
ValPhaseEnd ==
    /\ pc = "batch" /\ phase = "val"
    /\ Len(batches) = Len(dataloaders["val"])
    /\ \E r \in RecallVals :
         LET loss == EpochLoss(running_loss, dataset_sizes["val"])
             better == IsBetter(loss, r, best_metrics)
         IN /\ epoch_loss' = loss
            /\ epoch_recall' = r
            /\ IF better THEN UpdateBest(loss, r) ELSE KeepBest
            /\ patience_left' = NextPatience(better, patience_left, patience)
            /\ first_finite' = IF epoch = 0 THEN IsFinite(loss) ELSE first_finite
    /\ ran' = [ran EXCEPT !["val"] = @ + 1]
    /\ pc' = "epoch_end"
    /\ UNCHANGED <<args, epoch, phase, training, params, acc, cnt, stopped, at_entry>>

\* lines 101-103 with the scheduler stepped before the patience test
EarlyStopAfterStep ==
    /\ pc = "epoch_end"
    /\ OutOfPatience(patience_left)
    /\ sched_steps' = IF scheduler THEN sched_steps + 1 ELSE sched_steps
    /\ pc' = "finish"
    /\ stopped' = "patience"
    /\ UNCHANGED <<args, epoch, phase, training, params, acc, met, sel, opt_stepped,
                   ran, first_finite, at_entry>>

\* lines 101-103
EarlyStop ==
    /\ pc = "epoch_end"
    /\ OutOfPatience(patience_left)
    /\ pc' = "finish"
    /\ stopped' = "patience"
    /\ UNCHANGED <<args, epoch, phase, training, params, acc, met, sel, cnt,
                   ran, first_finite, at_entry>>

\* lines 105-106, then back to line 38
EpochEnd ==
    /\ pc = "epoch_end"
    /\ ~OutOfPatience(patience_left)
    /\ sched_steps' = IF scheduler THEN sched_steps + 1 ELSE sched_steps
    /\ epoch' = epoch + 1
    /\ pc' = "loop"
    /\ UNCHANGED <<args, phase, training, params, acc, met, sel, opt_stepped, hist,
                   at_entry>>

\* lines 108-117 without the load_state_dict of line 116
FinishNoRestore ==
    /\ pc = "finish"
    /\ pc' = "done"
    /\ UNCHANGED <<args, epoch, phase, training, params, acc, met, sel, cnt, hist,
                   at_entry>>

\* lines 108-117
Finish ==
    /\ pc = "finish"
    /\ params' = best_model_wts
    /\ pc' = "done"
    /\ UNCHANGED <<args, epoch, phase, training, acc, met, sel, cnt, hist, at_entry>>

Next ==
    \/ EpochStart
    \/ LoopExit
    \/ TrainBatch
    \/ ValBatch
    \/ TrainPhaseEnd
    \/ ValPhaseStart
    \/ ValPhaseEnd
    \/ EarlyStop
    \/ EpochEnd
    \/ Finish

Spec == Init /\ [][Next]_vars

\* ------------------------------------------------------------ properties
Returned == pc = "done"
LoopOver == pc \in {"finish", "done"}
ValDone == pc = "epoch_end"
UpdatedNow == saves = at_entry.saves + 1

\* sum over the batches of loss x batch size, from the batches themselves
RECURSIVE WeightedSum(_)
WeightedSum(bs) ==
    IF bs = <<>> THEN Fin(0)
    ELSE LET b == bs[Len(bs)]
             rest == WeightedSum(SubSeq(bs, 1, Len(bs) - 1))
         IN IF IsNaN(b.loss) \/ IsNaN(rest) THEN NaN
            ELSE IF IsInf(b.loss) \/ IsInf(rest) THEN Inf
            ELSE [num |-> rest.num + b.loss.num * b.n * rest.den, den |-> rest.den * b.loss.den]

\* C1: at the end of every val phase the best record (best_metrics,
\* best_model_wts) has been replaced by this epoch's metrics and parameters if
\* and only if epoch_loss < the best val_loss held before the phase or
\* epoch_recall > the best val_recall held before it; otherwise the record is
\* the one held before the phase.
C1_BestUpdateIff ==
    ValDone =>
        IF FLt(epoch_loss, at_entry.best.val_loss)
           \/ FGt(epoch_recall, at_entry.best.val_recall)
        THEN /\ best_metrics = [epoch |-> epoch + 1, val_loss |-> epoch_loss,
                                val_recall |-> epoch_recall]
             /\ best_model_wts = params
             /\ UpdatedNow
        ELSE /\ best_metrics = at_entry.best
             /\ best_model_wts = at_entry.wts
             /\ saves = at_entry.saves

\* C1 witness: a val phase whose loss improved while its recall worsened, and
\* which updated the best record.
C1_Witness ==
    /\ ValDone /\ epoch >= 1
    /\ FLt(epoch_loss, at_entry.best.val_loss)
    /\ FLt(epoch_recall, at_entry.best.val_recall)
    /\ best_metrics.epoch = epoch + 1

\* C2: after a val phase patience_left is patience if the phase updated the
\* best snapshot and one less than before the phase otherwise; during and after
\* a train phase it is what it was on entry of the phase.
C2_PatienceStep ==
    /\ ValDone =>
          patience_left = IF UpdatedNow THEN patience ELSE at_entry.left - 1
    /\ (phase = "train" /\ pc \in {"batch", "phase_done"}) =>
          patience_left = at_entry.left

\* C2 witness: a val phase without an update took patience_left from below
\* patience down by one.
C2_Witness ==
    /\ ValDone /\ ~UpdatedNow
    /\ at_entry.left < patience
    /\ patience_left = at_entry.left - 1

\* C3: a phase of a later epoch runs only if patience_left was > 0 at the end
\* of the epoch before; the loop ends on patience only with patience_left <= 0
\* after a val phase, and then (patience >= 1) right after the patience-th
\* consecutive val phase without an update; it ends otherwise only after
\* num_epochs epochs, whose last left patience_left > 0.
C3_StopExactly ==
    /\ (epoch >= 1 /\ pc \in {"batch", "phase_done", "epoch_end"}) => at_entry.left > 0
    /\ (epoch >= 1 /\ pc = "loop") => patience_left > 0
    /\ ran["val"] <= num_epochs
    /\ LoopOver =>
          /\ ran["train"] = ran["val"]
          /\ stopped \in {"patience", "exhausted"}
          /\ stopped = "patience" =>
                /\ patience_left <= 0
                /\ ran["val"] = epoch + 1
                /\ patience >= 1 => streak = patience
          /\ stopped = "exhausted" =>
                /\ ran["val"] = num_epochs
                /\ num_epochs >= 1 => patience_left > 0
    /\ ~LoopOver => stopped = "no"

\* C3 witness: with patience = 2 the loop stopped right after the second
\* consecutive val phase without an update.
C3_Witness ==
    /\ Returned /\ stopped = "patience"
    /\ patience = 2 /\ streak = 2 /\ patience_left = 0

\* C4: the returned model holds the parameters saved at the latest update of
\* the best record (the content of the checkpoint file), and the entry
\* parameters if there was no update.
C4_ReturnsBest ==
    Returned =>
        /\ params = best_model_wts
        /\ params = IF saves >= 1 THEN ckpt.wts ELSE EntryWts

\* C4 witness: the final epoch did not update the best record and the returned
\* parameters differ from the ones the last train phase produced.
C4_Witness ==
    /\ Returned /\ saves >= 1
    /\ best_metrics.epoch < ran["val"]
    /\ params # at_entry.params

\* C5: with num_epochs = 0 no phase runs, no optimizer step, scheduler step or
\* checkpoint write is made, best_metrics keeps its initial value and the
\* returned model has its entry parameters.
C5_ZeroEpochs ==
    num_epochs = 0 =>
        /\ pc \in {"loop", "finish", "done"}
        /\ ran = [p \in PhaseNames |-> 0]
        /\ ~opt_stepped /\ sched_steps = 0
        /\ saves = 0 /\ ~ckpt.written
        /\ best_metrics = InitBestMetrics
        /\ params = EntryWts

\* C5 witness: train_model has returned with num_epochs = 0.
C5_Witness == Returned /\ num_epochs = 0

\* C6: at the end of each phase epoch_loss is the sum over the phase's batches
\* of loss x batch size, divided by dataset_sizes[phase]; during a phase
\* running_loss is that sum over the batches of this phase alone.
C6_EpochLoss ==
    /\ pc \in {"phase_done", "epoch_end"} =>
          FSame(epoch_loss, FDivInt(WeightedSum(batches), dataset_sizes[phase]))
    /\ pc = "batch" => FSame(running_loss, WeightedSum(batches))

\* C6 witness: a phase of two batches of unequal sizes and different finite
\* losses, in a second epoch, whose epoch_loss is not the sum divided by the
\* number of batches.
C6_Witness ==
    /\ ValDone /\ epoch >= 1
    /\ Len(batches) = 2
    /\ batches[1].n # batches[2].n
    /\ batches[1].loss # batches[2].loss
    /\ IsFinite(epoch_loss) /\ epoch_loss.num > 0
    /\ ~FSame(epoch_loss, FDivInt(running_loss, Len(batches)))

\* C7: the checkpoint file exists exactly when the best record has been
\* updated, it then holds best_model_wts, and it is written only by a val phase
\* that updates the best record, once.
C7_FileMirrorsBest ==
    /\ ckpt.written <=> saves >= 1
    /\ ckpt.written <=> best_metrics.epoch >= 1
    /\ ckpt.written => ckpt.wts = best_model_wts
    /\ saves # at_entry.saves =>
          /\ phase = "val" /\ pc \in {"epoch_end", "loop", "finish", "done"}
          /\ UpdatedNow
          /\ best_metrics.epoch = ran["val"]

\* C7 witness: the file has been overwritten by a second update with other
\* parameters than the first wrote.
C7_Witness ==
    /\ ValDone /\ saves = 2
    /\ ckpt.wts # at_entry.wts

\* C8: the train phase of an epoch runs before its val phase; the parameters
\* and the optimizer are untouched from the entry of a val phase to its end;
\* and the snapshot a val phase stores is the parameters the train phase of
\* the same epoch ended with.
C8_ValHoldsParams ==
    /\ ran["train"] - ran["val"] \in {0, 1}
    /\ (pc = "batch" /\ phase = "train") => ran["train"] = ran["val"]
    /\ (pc = "batch" /\ phase = "val") => ran["train"] = ran["val"] + 1
    /\ pc \in {"batch", "phase_done"} => training = (phase = "train")
    /\ (phase = "val" /\ pc \in {"batch", "epoch_end"}) =>
          /\ params = at_entry.params
          /\ opt_stepped = at_entry.stepped
    /\ (ValDone /\ UpdatedNow) => best_model_wts = at_entry.params

\* C8 witness: a val phase of a second epoch stored a snapshot of parameters
\* that the train phase had changed.
C8_Witness ==
    /\ ValDone /\ UpdatedNow /\ epoch >= 1
    /\ opt_stepped
    /\ best_model_wts # at_entry.wts

\* C9: the scheduler has been stepped once for every epoch that ended with
\* patience_left > 0 and not for the epoch the loop stopped on: the number of
\* steps is the number of epochs run, less one if the loop stopped on patience,
\* and zero without a scheduler.
C9_SchedulerSteps ==
    /\ sched_steps = IF scheduler THEN epoch ELSE 0
    /\ LoopOver =>
          sched_steps = IF scheduler
                        THEN ran["val"] - (IF stopped = "patience" THEN 1 ELSE 0)
                        ELSE 0

\* C9 witness: with a scheduler, the loop stopped on patience in its second
\* epoch after one scheduler step.
C9_Witness ==
    /\ Returned /\ scheduler /\ stopped = "patience"
    /\ ran["val"] = 2 /\ sched_steps = 1

\* C10 as stated: for num_epochs >= 1 the best record has been updated at
\* least once when train_model returns, best_metrics.epoch is in 1..(epochs
\* run) and the returned snapshot is not the one taken at initialization.
C10_AlwaysUpdated ==
    (Returned /\ num_epochs >= 1) =>
        /\ saves >= 1
        /\ best_metrics.epoch \in 1..ran["val"]

\* C10 amended: a first val phase with a finite epoch_loss updates the best
\* record; best_metrics.epoch is in 0..(epochs run) and is 0 exactly when no
\* update happened; when the first val phase had a finite epoch_loss, the best
\* record has been updated, best_metrics.epoch is in 1..(epochs run) and the
\* returned parameters are the ones an update saved.
C10_UpdatedIfFinite ==
    /\ (ValDone /\ epoch = 0 /\ IsFinite(epoch_loss)) =>
          UpdatedNow /\ best_metrics.epoch = 1
    /\ best_metrics.epoch \in 0..ran["val"]
    /\ best_metrics.epoch = 0 <=> saves = 0
    /\ (ran["val"] >= 1 /\ first_finite) =>
          /\ saves >= 1
          /\ best_metrics.epoch \in 1..ran["val"]
          /\ Returned => params = ckpt.wts
    /\ (Returned /\ saves = 0) => params = EntryWts

\* C10 witness: train_model returned after a first val phase with a finite
\* loss, with the best record of the first epoch.
C10_Witness ==
    /\ Returned /\ first_finite /\ ran["val"] = 2
    /\ best_metrics.epoch = 1 /\ saves = 1

====
